---- MODULE Spec2Model ----
(***************************************************************************)
(* A model of mosdns' server front-end and hosts responder:                *)
(*   dispatcher/utils/server_handler.go   DefaultServerHandler.ServeDNS,   *)
(*                                        ClientQueryLimiter               *)
(*   dispatcher/plugin/hosts/hosts.go     hostsContainer, ipRecord         *)
(* Concurrent ServeDNS calls are processes; each call is cut at the points *)
(* where it touches state shared with other calls (the per-client counter, *)
(* the global limiter) or blocks.                                          *)
(***************************************************************************)
EXTENDS Integers, Sequences, FiniteSets, TLC

\* ------------------------------------------------------------------ bounds
NumQueries == 3     \* ServeDNS calls that may be in flight at once
MaxLimit == 2       \* largest ConcurrentLimit / ConcurrentLimitPreClient tried
MaxDefer == 2       \* most deferred actions one walk pushes on a context

Queries == 1..NumQueries
Limits == 0..MaxLimit

\* qCtx.From(): a client address (its String() is the limiter key) or nil
Clients == {"c1", "c2"}
NoAddr == "nil"
Addrs == Clients \cup {NoAddr}

\* handler.ContextStatus
StatusUnhandled == "unhandled"
StatusResponded == "responded"
StatusRejected == "rejected"
StatusDropped == "dropped"
StatusServerFailed == "server_failed"
Statuses ==
  {StatusUnhandled, StatusResponded, StatusRejected, StatusDropped, StatusServerFailed}

\* dns.Msg, as far as the handler is concerned: the id, the rcode, and who
\* built the message (the handler itself or a stage of the entry sequence).
RcodeSuccess == "NOERROR"
RcodeServerFailure == "SERVFAIL"
RcodeRefused == "REFUSED"
NilMsg == [Id |-> 0, Rcode |-> "nil", Origin |-> "nil"]

\* error values: nil, an error of the walker, an error of a deferred action
NilErr == "nil"
ErrWalk == "walk error"
ErrDefer == "defer error"

VARIABLES
  cfg,        \* DefaultServerHandlerConfig: ConcurrentLimit, ConcurrentLimitPreClient, Entry
  calls,      \* the queries the listener hands to ServeDNS
  m,          \* clientLimiter.m: key -> count, a key with no entry is absent
  bucket,     \* limiter: tokens in the pool
  waitq,      \* limiter: calls blocked on Wait(), oldest first
  panicked,   \* a panic of doneTestAndSet has taken the process down
  pc,         \* where each ServeDNS call stands
  from,       \* qCtx.From() of each call
  ctxDone,    \* ctx.Done() of each call is closed
  godefer,    \* the Go defer stack of each ServeDNS frame
  err,        \* ServeDNS' local err
  status,     \* qCtx.Status()
  R,          \* qCtx.R()
  deferred,   \* qCtx's stack of deferred actions
  walked,     \* how many times the walker ran on the call's entry
  ran,        \* the deferred actions ExecDefer has run for the call, in order
  walk,       \* what the walker left behind for the call: err, status, R, pushed
  w           \* what the call's ResponseWriter was given, in order

\* the hosts plugin and the one query context it is called with
VARIABLES
  container,  \* newHostsContainer: "loading", "ready" (a hostsContainer), "failed" (nil, err)
  matcher,    \* hostsContainer.matcher: pattern -> ipRecord
  loadErr,    \* the error newHostsContainer returned
  qCtx,       \* handler.Context of the query the plugin is called with: q, status, r
  ret,        \* what the last call of the plugin returned, and its calls of ExecNextPlugin
  arg,        \* the context as it was when the plugin was called
  merges      \* how many records the matcher has merged into one that was there

hvars == <<container, matcher, loadErr, qCtx, ret, arg, merges>>

svars ==
  <<cfg, calls, m, bucket, waitq, panicked, pc, from, ctxDone, godefer, err,
    status, R, deferred, walked, ran, walk, w>>

vars == <<svars, hvars>>

\* the calls are numbered by client: first those of c1, then c2, then no address
AddrRank(a) == IF a = "c1" THEN 1 ELSE IF a = "c2" THEN 2 ELSE 3

\* ------------------------------------------------------- messages, entry
\* qCtx.Q(): the question of call q; its id tells the calls' messages apart
Q(q) == [Id |-> q]

\* dns.Msg.SetReply(question) followed by r.Rcode = rcode, built by `origin`
SetReply(question, rcode, origin) ==
  [Id |-> question.Id, Rcode |-> rcode, Origin |-> origin]

\* the responses a stage of the entry may leave on the context of call q
EntryResponses(q) ==
  {SetReply(Q(q), RcodeSuccess, "entry"), SetReply(Q(q), RcodeServerFailure, "entry")}

\* a deferred action: the n-th pushed on its context; it fails or not when run
DeferStacks(n) ==
  UNION {[1..k -> BOOLEAN] : k \in 0..n}

\* What WalkExecutableCmd may leave behind for call q, by the kind of entry:
\* err, the context's status and response, and the pushed deferred actions.
\* A "static" entry answers every query itself (no error, no deferred
\* action); a "general" entry is any sequence of stages.
WalkResults(entry, q) ==
  IF entry = "static"
    THEN {[err |-> NilErr, status |-> StatusResponded,
           R |-> SetReply(Q(q), RcodeSuccess, "entry"), pushed |-> <<>>]}
    ELSE {r \in [err : {NilErr, ErrWalk}, status : Statuses,
                 R : EntryResponses(q) \cup {NilMsg}, pushed : DeferStacks(MaxDefer)] :
            r.status = StatusResponded => r.R # NilMsg}

\* before the walker has run
NoWalk == [err |-> NilErr, status |-> StatusUnhandled, R |-> NilMsg, pushed |-> <<>>]

\* ------------------------------------------------- ClientQueryLimiter
NilV == -1   \* the nil interface{} a test-and-set callback may return
\* the values a callback may be handed: nil or a count
Values == {NilV} \cup (0..NumQueries)

\* faulty variant: the limit test lets one call too many through
acquireTestAndSet_OffByOne(maxQueries, v, ok) ==
  LET n == IF ok THEN v ELSE 0
  IN  IF n > maxQueries
        THEN [newV |-> NilV, wantUpdate |-> FALSE, passed |-> FALSE, panic |-> FALSE]
        ELSE [newV |-> n + 1, wantUpdate |-> TRUE, passed |-> TRUE, panic |-> FALSE]

acquireTestAndSet(maxQueries, v, ok) ==
  LET n == IF ok THEN v ELSE 0
  IN  IF n >= maxQueries
        THEN [newV |-> NilV, wantUpdate |-> FALSE, passed |-> FALSE, panic |-> FALSE]
        ELSE [newV |-> n + 1, wantUpdate |-> TRUE, passed |-> TRUE, panic |-> FALSE]

\* faulty variant: a count that reaches 0 is stored, not removed
doneTestAndSet_KeepZero(v, ok) ==
  IF ~ok
    THEN [newV |-> NilV, wantUpdate |-> FALSE, passed |-> FALSE, panic |-> TRUE]
    ELSE LET n == v - 1
         IN  IF n < 0
               THEN [newV |-> NilV, wantUpdate |-> FALSE, passed |-> FALSE, panic |-> TRUE]
               ELSE [newV |-> n, wantUpdate |-> TRUE, passed |-> TRUE, panic |-> FALSE]

doneTestAndSet(v, ok) ==
  IF ~ok
    THEN [newV |-> NilV, wantUpdate |-> FALSE, passed |-> FALSE, panic |-> TRUE]
    ELSE LET n == v - 1
         IN  IF n < 0
               THEN [newV |-> NilV, wantUpdate |-> FALSE, passed |-> FALSE, panic |-> TRUE]
               ELSE IF n = 0
                 THEN [newV |-> NilV, wantUpdate |-> TRUE, passed |-> TRUE, panic |-> FALSE]
                 ELSE [newV |-> n, wantUpdate |-> TRUE, passed |-> TRUE, panic |-> FALSE]

\* ConcurrentMap.TestAndSet: under the shard's lock, hand (value, present) of
\* key to f and store or delete as f says; yields the new map and f's verdict.
TestAndSet(map, key, f) ==
  LET ok == key \in DOMAIN map
      r == f[IF ok THEN map[key] ELSE NilV, ok]
      stored == [k \in DOMAIN map \cup {key} |-> IF k = key THEN r.newV ELSE map[k]]
      deleted == [k \in DOMAIN map \ {key} |-> map[k]]
  IN  [m |-> IF r.wantUpdate /\ ~r.panic
               THEN (IF r.newV # NilV THEN stored ELSE deleted)
               ELSE map,
       passed |-> r.passed,
       panic |-> r.panic]

Acquire(map, maxQueries, key) ==
  TestAndSet(map, key,
             [v \in Values, ok \in BOOLEAN |-> acquireTestAndSet(maxQueries, v, ok)])

Done(map, key) ==
  TestAndSet(map, key, [v \in Values, ok \in BOOLEAN |-> doneTestAndSet(v, ok)])

\* the count of key, 0 if absent
Count(map, key) == IF key \in DOMAIN map THEN map[key] ELSE 0

EmptyMap == [k \in {} |-> 0]

\* ------------------------------------------------------ deferred actions
\* Context.ExecDefer: pops the deferred actions and runs each once, last
\* pushed first; the error it returns is that of a deferred action that failed.
RECURSIVE ExecDeferRun(_)
ExecDeferRun(stack) ==
  IF stack = <<>>
    THEN <<>>
    ELSE <<Len(stack)>> \o ExecDeferRun(SubSeq(stack, 1, Len(stack) - 1))

ExecDefer(stack) ==
  [ran |-> ExecDeferRun(stack),
   err |-> IF \E i \in DOMAIN stack : stack[i] THEN ErrDefer ELSE NilErr]

\* faulty variant: the deferred actions are run after a failed walk too
execEntry_DeferOnError(res) ==
  LET d == ExecDefer(res.pushed)
  IN  [err |-> IF res.err # NilErr THEN res.err ELSE d.err, ran |-> d.ran,
       deferred |-> <<>>]

\* faulty variant: the error of ExecDefer is dropped
execEntry_DropDeferErr(res) ==
  IF res.err # NilErr
    THEN [err |-> res.err, ran |-> <<>>, deferred |-> res.pushed]
    ELSE LET d == ExecDefer(res.pushed)
         IN  [err |-> NilErr, ran |-> d.ran, deferred |-> <<>>]

\* DefaultServerHandler.execEntry, given what the walk left behind
execEntry(res) ==
  IF res.err # NilErr
    THEN [err |-> res.err, ran |-> <<>>, deferred |-> res.pushed]
    ELSE LET d == ExecDefer(res.pushed)
         IN  [err |-> d.err, ran |-> d.ran, deferred |-> <<>>]

\* faulty variant: a response on the context is written whatever the outcome
ReplyMsg_ResponseFirst(e, st, resp, question) ==
  IF resp # NilMsg
    THEN resp
    ELSE IF e # NilErr \/ st = StatusServerFailed
      THEN SetReply(question, RcodeServerFailure, "ServeDNS")
      ELSE NilMsg

\* ServeDNS, lines 123-130: the message to write, NilMsg for none
ReplyMsg(e, st, resp, question) ==
  IF e # NilErr \/ st = StatusServerFailed
    THEN SetReply(question, RcodeServerFailure, "ServeDNS")
    ELSE resp

\* ------------------------------------------------------------- ServeDNS
ClientLimited == cfg.ConcurrentLimitPreClient > 0   \* h.clientLimiter != nil
GlobalLimited == cfg.ConcurrentLimit > 0            \* h.limiter != nil

\* where a call goes on `return`: its deferred calls run first, if any
ReturnPc(stack) == IF stack = <<>> THEN "done" ELSE "return"
\* where a call goes once it is past the per-client limiter
GatePc == IF GlobalLimited THEN "gate" ELSE "exec"

\* faulty variant: the refusal is written but ServeDNS does not return after it
AdmitOutcome_NoReturn(map, limit, addr, question) ==
  IF limit > 0 /\ addr # NoAddr
    THEN LET a == Acquire(map, limit, addr)
         IN  IF ~a.passed
               THEN [m |-> a.m, admitted |-> TRUE,
                     reply |-> SetReply(question, RcodeRefused, "ServeDNS"),
                     godefer |-> <<>>]
               ELSE [m |-> a.m, admitted |-> TRUE, reply |-> NilMsg,
                     godefer |-> <<"clientLimiter.Done">>]
    ELSE [m |-> map, admitted |-> TRUE, reply |-> NilMsg, godefer |-> <<>>]

\* faulty variant: Done is deferred before the verdict of Acquire is looked at
AdmitOutcome_DeferFirst(map, limit, addr, question) ==
  IF limit > 0 /\ addr # NoAddr
    THEN LET a == Acquire(map, limit, addr)
         IN  IF ~a.passed
               THEN [m |-> a.m, admitted |-> FALSE,
                     reply |-> SetReply(question, RcodeRefused, "ServeDNS"),
                     godefer |-> <<"clientLimiter.Done">>]
               ELSE [m |-> a.m, admitted |-> TRUE, reply |-> NilMsg,
                     godefer |-> <<"clientLimiter.Done">>]
    ELSE [m |-> map, admitted |-> TRUE, reply |-> NilMsg, godefer |-> <<>>]

\* faulty variant: the address is not tested for nil before it is used as key
AdmitOutcome_NoNilTest(map, limit, addr, question) ==
  IF limit > 0
    THEN LET a == Acquire(map, limit, addr)
         IN  IF ~a.passed
               THEN [m |-> a.m, admitted |-> FALSE,
                     reply |-> SetReply(question, RcodeRefused, "ServeDNS"),
                     godefer |-> <<>>]
               ELSE [m |-> a.m, admitted |-> TRUE, reply |-> NilMsg,
                     godefer |-> <<"clientLimiter.Done">>]
    ELSE [m |-> map, admitted |-> TRUE, reply |-> NilMsg, godefer |-> <<>>]

\* faulty variant: Done is deferred outside the test of the address
AdmitOutcome_DeferOutside(map, limit, addr, question) ==
  IF limit > 0
    THEN IF addr # NoAddr
      THEN LET a == Acquire(map, limit, addr)
           IN  IF ~a.passed
                 THEN [m |-> a.m, admitted |-> FALSE,
                       reply |-> SetReply(question, RcodeRefused, "ServeDNS"),
                       godefer |-> <<>>]
                 ELSE [m |-> a.m, admitted |-> TRUE, reply |-> NilMsg,
                       godefer |-> <<"clientLimiter.Done">>]
      ELSE [m |-> map, admitted |-> TRUE, reply |-> NilMsg,
            godefer |-> <<"clientLimiter.Done">>]
    ELSE [m |-> map, admitted |-> TRUE, reply |-> NilMsg, godefer |-> <<>>]

\* ServeDNS, lines 90-103, for a query from addr: the counter afterwards,
\* whether the call goes on, the reply written (NilMsg for none) and the
\* deferred calls registered
AdmitOutcome(map, limit, addr, question) ==
  IF limit > 0 /\ addr # NoAddr
    THEN LET a == Acquire(map, limit, addr)
         IN  IF ~a.passed
               THEN [m |-> a.m, admitted |-> FALSE,
                     reply |-> SetReply(question, RcodeRefused, "ServeDNS"),
                     godefer |-> <<>>]
               ELSE [m |-> a.m, admitted |-> TRUE, reply |-> NilMsg,
                     godefer |-> <<"clientLimiter.Done">>]
    ELSE [m |-> map, admitted |-> TRUE, reply |-> NilMsg, godefer |-> <<>>]

\* the listener calls ServeDNS for the next query of q's client
Admit(q) ==
  /\ ~panicked
  /\ pc[q] = "idle"
  /\ q \in calls
  /\ LET o == AdmitOutcome(m, cfg.ConcurrentLimitPreClient, from[q], Q(q))
     IN  /\ m' = o.m
         /\ godefer' = [godefer EXCEPT ![q] = o.godefer]
         /\ w' = [w EXCEPT ![q] = IF o.reply # NilMsg THEN Append(@, o.reply) ELSE @]
         /\ pc' = [pc EXCEPT ![q] = IF o.admitted THEN GatePc ELSE ReturnPc(o.godefer)]
  /\ UNCHANGED <<hvars, cfg, calls, bucket, waitq, panicked, from, ctxDone, err, status, R,
                 deferred, walked, ran, walk>>

\* the query's context is cancelled or its deadline passes before the select
Cancel(q) ==
  /\ ~panicked
  /\ pc[q] = "gate"
  /\ ~ctxDone[q]
  /\ ctxDone' = [ctxDone EXCEPT ![q] = TRUE]
  /\ UNCHANGED <<hvars, cfg, calls, m, bucket, waitq, panicked, pc, from, godefer, err,
                 status, R, deferred, walked, ran, walk, w>>

\* faulty variant: the token case is taken although the pool is empty
SelectCases_NoToken(tokens, done) ==
  {c \in {"token", "ctx", "block"} :
     /\ c = "token" => ~done
     /\ c = "ctx" => done
     /\ c = "block" => tokens = 0 /\ ~done}

\* the select of lines 105-113 with `tokens` in the pool: the cases it may take.
\* "token": <-h.limiter.Wait() delivers; "ctx": <-ctx.Done() delivers; "block":
\* neither is ready and the call queues up on both. With both ready Go takes
\* either case; taking the token then is the run in which ctx is done only
\* after the select, for ServeDNS does not look at ctx again.
SelectCases(tokens, done) ==
  {c \in {"token", "ctx", "block"} :
     /\ c = "token" => tokens > 0 /\ ~done
     /\ c = "ctx" => done
     /\ c = "block" => tokens = 0 /\ ~done}

\* faulty variant: the ctx case does not return and goes on to execEntry
SelectTarget_NoReturn(c, stack) ==
  IF c = "block" THEN "waiting" ELSE "exec"

\* faulty variant: the ctx case leaves at once, its deferred calls are not run
SelectTarget_NoDefers(c, stack) ==
  IF c = "token" THEN "exec" ELSE IF c = "block" THEN "waiting" ELSE "done"

\* where the call stands after the select took case c, `stack` being its
\* deferred calls: on to execEntry, blocked, or returning (line 111)
SelectTarget(c, stack) ==
  IF c = "token" THEN "exec" ELSE IF c = "block" THEN "waiting" ELSE ReturnPc(stack)

\* faulty variant: limiter.Done is put behind the deferred calls that are
\* there, so it runs after them
Select_DeferLast(q) ==
  /\ ~panicked
  /\ pc[q] = "gate"
  /\ \E c \in SelectCases(bucket, ctxDone[q]) :
       \/ /\ c = "token"
          /\ bucket' = bucket - 1
          /\ godefer' = [godefer EXCEPT ![q] = @ \o <<"limiter.Done">>]
          /\ pc' = [pc EXCEPT ![q] = SelectTarget(c, godefer'[q])]
          /\ UNCHANGED waitq
       \/ /\ c = "ctx"
          /\ pc' = [pc EXCEPT ![q] = SelectTarget(c, godefer[q])]
          /\ UNCHANGED <<bucket, waitq, godefer>>
       \/ /\ c = "block"
          /\ waitq' = Append(waitq, q)
          /\ pc' = [pc EXCEPT ![q] = SelectTarget(c, godefer[q])]
          /\ UNCHANGED <<bucket, godefer>>
  /\ UNCHANGED <<hvars, cfg, calls, m, panicked, from, ctxDone, err, status, R,
                 deferred, walked, ran, walk, w>>

\* the select of lines 105-113 and what follows the case taken
Select(q) ==
  /\ ~panicked
  /\ pc[q] = "gate"
  /\ \E c \in SelectCases(bucket, ctxDone[q]) :
       \/ /\ c = "token"
          /\ bucket' = bucket - 1
          /\ godefer' = [godefer EXCEPT ![q] = <<"limiter.Done">> \o @]
          /\ pc' = [pc EXCEPT ![q] = SelectTarget(c, godefer'[q])]
          /\ UNCHANGED waitq
       \/ /\ c = "ctx"
          /\ pc' = [pc EXCEPT ![q] = SelectTarget(c, godefer[q])]
          /\ UNCHANGED <<bucket, waitq, godefer>>
       \/ /\ c = "block"
          /\ waitq' = Append(waitq, q)
          /\ pc' = [pc EXCEPT ![q] = SelectTarget(c, godefer[q])]
          /\ UNCHANGED <<bucket, godefer>>
  /\ UNCHANGED <<hvars, cfg, calls, m, panicked, from, ctxDone, err, status, R,
                 deferred, walked, ran, walk, w>>

\* ctx.Done() fires while the call is blocked in the select: it leaves the
\* queue and returns without a reply (lines 109-111)
WaitCtxDone(q) ==
  /\ ~panicked
  /\ pc[q] = "waiting"
  /\ ctxDone' = [ctxDone EXCEPT ![q] = TRUE]
  /\ waitq' = SelectSeq(waitq, LAMBDA x : x # q)
  /\ pc' = [pc EXCEPT ![q] = SelectTarget("ctx", godefer[q])]
  /\ UNCHANGED <<hvars, cfg, calls, m, bucket, panicked, from, godefer, err, status, R,
                 deferred, walked, ran, walk, w>>

\* lines 115-135: execEntry walks the entry and runs the deferred actions;
\* then SERVFAIL or the carried response is written, if there is one
ExecEntry(q) ==
  /\ ~panicked
  /\ pc[q] = "exec"
  /\ \E res \in WalkResults(cfg.Entry, q) :
       LET e == execEntry(res)
           r == ReplyMsg(e.err, res.status, res.R, Q(q))
       IN  /\ err' = [err EXCEPT ![q] = e.err]
           /\ status' = [status EXCEPT ![q] = res.status]
           /\ R' = [R EXCEPT ![q] = res.R]
           /\ deferred' = [deferred EXCEPT ![q] = e.deferred]
           /\ walk' = [walk EXCEPT ![q] = res]
           /\ ran' = [ran EXCEPT ![q] = e.ran]
           /\ w' = [w EXCEPT ![q] = IF r # NilMsg THEN Append(@, r) ELSE @]
  /\ walked' = [walked EXCEPT ![q] = @ + 1]
  /\ pc' = [pc EXCEPT ![q] = ReturnPc(godefer[q])]
  /\ UNCHANGED <<hvars, cfg, calls, m, bucket, waitq, panicked, from, ctxDone, godefer>>

\* faulty variant: the call that came last is served first
NextWaiter_Lifo(queue) == Len(queue)

\* the place in the limiter's queue of the call served next: FIFO
NextWaiter(queue) == 1

\* ConcurrentLimiter.Done: the token goes to the call that has waited longest,
\* which leaves the select holding it (line 108), or back into the pool
LimiterDone(q) ==
  IF waitq # <<>>
    THEN LET h == waitq[NextWaiter(waitq)]
         IN  /\ waitq' = SelectSeq(waitq, LAMBDA x : x # h)
             /\ pc' = [pc EXCEPT ![h] = "exec", ![q] = ReturnPc(Tail(godefer[q]))]
             /\ godefer' = [godefer EXCEPT ![h] = <<"limiter.Done">> \o @,
                                           ![q] = Tail(@)]
             /\ UNCHANGED bucket
    ELSE /\ bucket' = bucket + 1
         /\ pc' = [pc EXCEPT ![q] = ReturnPc(Tail(godefer[q]))]
         /\ godefer' = [godefer EXCEPT ![q] = Tail(@)]
         /\ UNCHANGED waitq

\* ServeDNS returns: its deferred calls run, last deferred first
\* (godefer keeps the last deferred call at its head)
RunDeferred(q) ==
  /\ ~panicked
  /\ pc[q] = "return"
  /\ IF Head(godefer[q]) = "limiter.Done"
       THEN /\ LimiterDone(q)
            /\ UNCHANGED <<m, panicked>>
       ELSE LET d == Done(m, from[q])
            IN  /\ m' = d.m
                /\ panicked' = d.panic
                /\ godefer' = [godefer EXCEPT ![q] = Tail(@)]
                /\ pc' = [pc EXCEPT ![q] = ReturnPc(Tail(godefer[q]))]
                /\ UNCHANGED <<bucket, waitq>>
  /\ UNCHANGED <<hvars, cfg, calls, from, ctxDone, err, status, R, deferred, walked,
                 ran, walk, w>>

\* the call has returned; the listener reuses q for its next query
Finish(q) ==
  /\ ~panicked
  /\ pc[q] = "done"
  /\ pc' = [pc EXCEPT ![q] = "idle"]
  /\ ctxDone' = [ctxDone EXCEPT ![q] = FALSE]
  /\ err' = [err EXCEPT ![q] = NilErr]
  /\ status' = [status EXCEPT ![q] = StatusUnhandled]
  /\ R' = [R EXCEPT ![q] = NilMsg]
  /\ deferred' = [deferred EXCEPT ![q] = <<>>]
  /\ walked' = [walked EXCEPT ![q] = 0]
  /\ ran' = [ran EXCEPT ![q] = <<>>]
  /\ walk' = [walk EXCEPT ![q] = NoWalk]
  /\ w' = [w EXCEPT ![q] = <<>>]
  /\ UNCHANGED <<hvars, cfg, calls, m, bucket, waitq, panicked, from, godefer>>

\* ----------------------------------------------------------- the system
\* ====================================================== the hosts plugin
\* bound: the address tokens of the hosts lines loaded
MaxIPs == 3

\* the patterns of the hosts lines (all of type full) and the names asked for
Patterns == {"example.com.", "host.lan."}
Names == Patterns \cup {"other.org."}

TypeA == "A"
TypeAAAA == "AAAA"
TypeMX == "MX"
Qtypes == {TypeA, TypeAAAA, TypeMX}
ClassINET == "IN"
HostsTTL == 3600
MsgIds == {1, 2}

\* an error of the plugin: what it says and the token it names; nil is <<>>
NilError == <<>>
ErrNext == <<"next plugin failed">>

\* net.IP: its length in bytes and its address; a 16-byte IP may hold an IPv4
\* address in its IPv4-in-IPv6 form
NilIP == [len |-> 0, addr |-> "nil"]
Tokens == {"1.2.3.4", "5.6.7.8", "::1", "::ffff:1.2.3.4", "bad"}

\* net.ParseIP: the 16-byte IP of a dotted or colon text, nil for any other
ParseIP(t) ==
  CASE t = "1.2.3.4" -> [len |-> 16, addr |-> "::ffff:1.2.3.4"]
    [] t = "::ffff:1.2.3.4" -> [len |-> 16, addr |-> "::ffff:1.2.3.4"]
    [] t = "5.6.7.8" -> [len |-> 16, addr |-> "::ffff:5.6.7.8"]
    [] t = "::1" -> [len |-> 16, addr |-> "::1"]
    [] OTHER -> NilIP

\* net.IP.To4: the 4-byte form of an IPv4 address, nil if ip is none
To4(ip) ==
  CASE ip.len = 4 -> ip
    [] ip.len = 16 /\ ip.addr = "::ffff:1.2.3.4" -> [len |-> 4, addr |-> "1.2.3.4"]
    [] ip.len = 16 /\ ip.addr = "::ffff:5.6.7.8" -> [len |-> 4, addr |-> "5.6.7.8"]
    [] OTHER -> NilIP

\* net.IP.To16: the 16-byte form
To16(ip) ==
  CASE ip.len = 16 -> ip
    [] ip.len = 4 /\ ip.addr = "1.2.3.4" -> [len |-> 16, addr |-> "::ffff:1.2.3.4"]
    [] ip.len = 4 /\ ip.addr = "5.6.7.8" -> [len |-> 16, addr |-> "::ffff:5.6.7.8"]
    [] OTHER -> NilIP

\* type ipRecord, empty
ipRecord == [ipv4 |-> <<>>, ipv6 |-> <<>>]

\* faulty variant: an address the record holds already is not added again
ipRecordAppend_Dedup(r, n) ==
  [ipv4 |-> r.ipv4 \o SelectSeq(n.ipv4, LAMBDA a : \A i \in DOMAIN r.ipv4 : r.ipv4[i] # a),
   ipv6 |-> r.ipv6 \o SelectSeq(n.ipv6, LAMBDA a : \A i \in DOMAIN r.ipv6 : r.ipv6[i] # a)]

\* ipRecord.Append
ipRecordAppend(r, n) == [ipv4 |-> r.ipv4 \o n.ipv4, ipv6 |-> r.ipv6 \o n.ipv6]

\* the loop of parseIP from token i on; a pointer is <<>> (nil) or <<record>>
RECURSIVE parseIPLoop(_, _, _)
parseIPLoop(s, i, record) ==
  IF i > Len(s)
    THEN [v |-> <<record>>, accept |-> TRUE, err |-> NilError]
    ELSE LET ip == ParseIP(s[i])
         IN  IF ip = NilIP
               THEN [v |-> <<>>, accept |-> FALSE, err |-> <<"invalid ip addr", s[i]>>]
               ELSE IF To4(ip) # NilIP
                 THEN parseIPLoop(s, i + 1, [record EXCEPT !.ipv4 = Append(@, To4(ip))])
                 ELSE IF To16(ip) # NilIP
                   THEN parseIPLoop(s, i + 1, [record EXCEPT !.ipv6 = Append(@, To16(ip))])
                   ELSE [v |-> <<>>, accept |-> FALSE,
                         err |-> <<"is not an ipv4 or ipv6 addr", s[i]>>]

\* faulty variant: a line with no token is not told apart
parseIP_NoLenTest(s) == parseIPLoop(s, 1, ipRecord)

\* parseIP: the record of the tokens s of a hosts line, whether the matcher is
\* to take it, and the error
parseIP(s) ==
  IF Len(s) = 0
    THEN [v |-> <<>>, accept |-> FALSE, err |-> NilError]
    ELSE parseIPLoop(s, 1, ipRecord)

\* domain.NewMixMatcher
EmptyMatcher == [p \in {} |-> ipRecord]

\* the matcher after one more entry: a record under a pattern that is already
\* there is merged into it by its Append
MatcherAdd(mt, p, v) ==
  IF p \in DOMAIN mt
    THEN [mt EXCEPT ![p] = ipRecordAppend(@, v)]
    ELSE [x \in DOMAIN mt \cup {p} |-> IF x = p THEN v ELSE mt[x]]

\* Matcher.Match for patterns of type full
Match(mt, fqdn) ==
  IF fqdn \in DOMAIN mt
    THEN [v |-> <<mt[fqdn]>>, ok |-> TRUE]
    ELSE [v |-> <<>>, ok |-> FALSE]

\* the address tokens the matcher holds
Stored(mt) ==
  LET RECURSIVE Sum(_)
      Sum(ps) == IF ps = {} THEN 0
                 ELSE LET p == CHOOSE x \in ps : TRUE
                      IN  Len(mt[p].ipv4) + Len(mt[p].ipv6) + Sum(ps \ {p})
  IN  Sum(DOMAIN mt)

\* dns.Msg as the plugin sees it
NoMsg == [Id |-> 0, Response |-> FALSE, Rcode |-> "nil", Question |-> <<>>, Answer |-> <<>>]
Query(id, question) ==
  [Id |-> id, Response |-> FALSE, Rcode |-> RcodeSuccess, Question |-> question,
   Answer |-> <<>>]

\* faulty variant: the reply is a fresh message, the request's id is not copied
SetReplyTo_FreshId(request) ==
  [Id |-> 0, Response |-> TRUE, Rcode |-> RcodeSuccess,
   Question |-> IF Len(request.Question) > 0 THEN <<request.Question[1]>> ELSE <<>>,
   Answer |-> <<>>]

\* dns.Msg.SetReply
SetReplyTo(request) ==
  [Id |-> request.Id, Response |-> TRUE, Rcode |-> RcodeSuccess,
   Question |-> IF Len(request.Question) > 0 THEN <<request.Question[1]>> ELSE <<>>,
   Answer |-> <<>>]

\* the dns.A or dns.AAAA built for ip
AnswerRR(fqdn, typ, ip) ==
  [Name |-> fqdn, Rrtype |-> typ, Class |-> ClassINET, Ttl |-> HostsTTL, Addr |-> ip]

\* the answer section after the loop over ips
Answers(fqdn, typ, ips) == [i \in 1..Len(ips) |-> AnswerRR(fqdn, typ, ips[i])]

\* handler.Context.SetResponse
SetResponse(ctx, r, st) == [ctx EXCEPT !.r = r, !.status = st]

\* faulty variant: an A query is answered with every address of the record
matchAndSet_AnyFamily(mt, ctx) ==
  IF Len(ctx.q.Question) # 1
    THEN [matched |-> FALSE, qCtx |-> ctx]
    ELSE LET typ == ctx.q.Question[1].Qtype
             fqdn == ctx.q.Question[1].Name
             mr == Match(mt, fqdn)
         IN  IF ~mr.ok
               THEN [matched |-> FALSE, qCtx |-> ctx]
               ELSE LET record == mr.v[1]
                        all == record.ipv4 \o record.ipv6
                    IN  IF typ = TypeA /\ Len(all) # 0
                          THEN [matched |-> TRUE,
                                qCtx |-> SetResponse(ctx,
                                   [SetReplyTo(ctx.q) EXCEPT
                                      !.Answer = Answers(fqdn, TypeA, all)],
                                   StatusResponded)]
                          ELSE IF typ = TypeAAAA /\ Len(record.ipv6) # 0
                            THEN [matched |-> TRUE,
                                  qCtx |-> SetResponse(ctx,
                                     [SetReplyTo(ctx.q) EXCEPT
                                        !.Answer = Answers(fqdn, TypeAAAA, record.ipv6)],
                                     StatusResponded)]
                            ELSE [matched |-> FALSE, qCtx |-> ctx]

\* faulty variant: the response is set but `return true` is missing
matchAndSet_NoReturnTrue(mt, ctx) ==
  IF Len(ctx.q.Question) # 1
    THEN [matched |-> FALSE, qCtx |-> ctx]
    ELSE LET typ == ctx.q.Question[1].Qtype
             fqdn == ctx.q.Question[1].Name
             mr == Match(mt, fqdn)
         IN  IF ~mr.ok
               THEN [matched |-> FALSE, qCtx |-> ctx]
               ELSE LET record == mr.v[1]
                    IN  IF typ = TypeA /\ Len(record.ipv4) # 0
                          THEN [matched |-> FALSE,
                                qCtx |-> SetResponse(ctx,
                                   [SetReplyTo(ctx.q) EXCEPT
                                      !.Answer = Answers(fqdn, TypeA, record.ipv4)],
                                   StatusResponded)]
                          ELSE IF typ = TypeAAAA /\ Len(record.ipv6) # 0
                            THEN [matched |-> FALSE,
                                  qCtx |-> SetResponse(ctx,
                                     [SetReplyTo(ctx.q) EXCEPT
                                        !.Answer = Answers(fqdn, TypeAAAA, record.ipv6)],
                                     StatusResponded)]
                            ELSE [matched |-> FALSE, qCtx |-> ctx]

\* hostsContainer.matchAndSet: whether it matched, and the context afterwards
matchAndSet(mt, ctx) ==
  IF Len(ctx.q.Question) # 1
    THEN [matched |-> FALSE, qCtx |-> ctx]
    ELSE LET typ == ctx.q.Question[1].Qtype
             fqdn == ctx.q.Question[1].Name
             mr == Match(mt, fqdn)
         IN  IF ~mr.ok
               THEN [matched |-> FALSE, qCtx |-> ctx]
               ELSE LET record == mr.v[1]
                    IN  IF typ = TypeA /\ Len(record.ipv4) # 0
                          THEN [matched |-> TRUE,
                                qCtx |-> SetResponse(ctx,
                                   [SetReplyTo(ctx.q) EXCEPT
                                      !.Answer = Answers(fqdn, TypeA, record.ipv4)],
                                   StatusResponded)]
                          ELSE IF typ = TypeAAAA /\ Len(record.ipv6) # 0
                            THEN [matched |-> TRUE,
                                  qCtx |-> SetResponse(ctx,
                                     [SetReplyTo(ctx.q) EXCEPT
                                        !.Answer = Answers(fqdn, TypeAAAA, record.ipv6)],
                                     StatusResponded)]
                            ELSE [matched |-> FALSE, qCtx |-> ctx]

\* the address tokens of a hosts line, at most n of them
TokenLines(n) == UNION {[1..k -> Tokens] : k \in 0..n}

\* the question sections tried: none, one question, two questions
Question(name, typ) == [Name |-> name, Qtype |-> typ, Qclass |-> ClassINET]
Questions ==
  {<<>>}
    \cup {<<Question(n, t)>> : n \in Names, t \in Qtypes}
    \cup {<<Question(n, TypeA), Question(n, TypeAAAA)>> : n \in Names}

\* the contexts the plugin is called with: what the stages before it left
PriorContexts ==
  {[status |-> StatusUnhandled, r |-> NoMsg], [status |-> StatusRejected, r |-> NoMsg]}
QueryContexts ==
  {[q |-> Query(id, qs), status |-> c.status, r |-> c.r] :
     id \in MsgIds, qs \in Questions, c \in PriorContexts}

NoContext == [q |-> NoMsg, status |-> StatusUnhandled, r |-> NoMsg]
\* next counts the calls of ExecNextPlugin, nextErr is what the last one returned
NoReturn ==
  [op |-> "none", earlyStop |-> FALSE, err |-> NilError, next |-> 0, nextErr |-> NilError]

\* before newHostsContainer has read a line
HostsStart ==
  /\ container = "loading"
  /\ matcher = EmptyMatcher
  /\ loadErr = NilError
  /\ qCtx = NoContext
  /\ ret = NoReturn
  /\ arg = NoContext
  /\ merges = 0

\* newHostsContainer, one line of a hosts file: domain.BatchLoadMatcher hands
\* its tokens to parseIP and adds the record under the pattern; an error ends
\* the load and there is no container
Load(p, s) ==
  /\ container = "loading"
  /\ Stored(matcher) + Len(s) <= MaxIPs
  /\ LET l == parseIP(s)
     IN  IF l.err # NilError
           THEN /\ container' = "failed"
                /\ loadErr' = l.err
                /\ matcher' = EmptyMatcher
                /\ merges' = 0
           ELSE /\ matcher' = IF l.accept THEN MatcherAdd(matcher, p, l.v[1]) ELSE matcher
                /\ merges' = IF l.accept /\ p \in DOMAIN matcher THEN merges + 1 ELSE merges
                /\ UNCHANGED <<container, loadErr>>
  /\ UNCHANGED <<qCtx, ret, arg, svars>>

\* newHostsContainer returns the container
Ready ==
  /\ container = "loading"
  /\ container' = "ready"
  /\ UNCHANGED <<matcher, loadErr, qCtx, ret, arg, merges, svars>>

\* hostsContainer.ExecES called with context ctx; the matcher is only read
\* once the container is there, so one call of the plugin is looked at
ExecES(ctx) ==
  /\ container = "ready"
  /\ ret = NoReturn
  /\ LET r == matchAndSet(matcher, ctx)
     IN  /\ qCtx' = r.qCtx
         /\ ret' = [op |-> "ExecES", earlyStop |-> r.matched, err |-> NilError, next |-> 0,
                    nextErr |-> NilError]
  /\ arg' = ctx
  /\ UNCHANGED <<container, matcher, loadErr, merges, svars>>

\* faulty variant: the next plugin is called after a hit too
Connect_AlwaysNext(ctx, e) ==
  /\ container = "ready"
  /\ ret = NoReturn
  /\ LET r == matchAndSet(matcher, ctx)
     IN  /\ qCtx' = r.qCtx
         /\ ret' = [op |-> "Connect", earlyStop |-> FALSE, err |-> e,
                    next |-> 1, nextErr |-> e]
  /\ arg' = ctx
  /\ UNCHANGED <<container, matcher, loadErr, merges, svars>>

\* hostsContainer.Connect called with context ctx; e is what ExecNextPlugin
\* returns if it is called
Connect(ctx, e) ==
  /\ container = "ready"
  /\ ret = NoReturn
  /\ LET r == matchAndSet(matcher, ctx)
     IN  /\ qCtx' = r.qCtx
         /\ ret' = IF r.matched
                     THEN [op |-> "Connect", earlyStop |-> FALSE, err |-> NilError,
                           next |-> 0, nextErr |-> NilError]
                     ELSE [op |-> "Connect", earlyStop |-> FALSE, err |-> e,
                           next |-> 1, nextErr |-> e]
  /\ arg' = ctx
  /\ UNCHANGED <<container, matcher, loadErr, merges, svars>>

\* The workloads tried: every query slot in use against a static entry, or a
\* single call against a general entry.
Workloads ==
  {[calls |-> Queries, Entry |-> "static"], [calls |-> {1}, Entry |-> "general"]}

\* no call in flight
NoCalls ==
  /\ m = EmptyMap
  /\ waitq = <<>>
  /\ panicked = FALSE
  /\ pc = [q \in Queries |-> "idle"]
  /\ ctxDone = [q \in Queries |-> FALSE]
  /\ godefer = [q \in Queries |-> <<>>]
  /\ err = [q \in Queries |-> NilErr]
  /\ status = [q \in Queries |-> StatusUnhandled]
  /\ R = [q \in Queries |-> NilMsg]
  /\ deferred = [q \in Queries |-> <<>>]
  /\ walked = [q \in Queries |-> 0]
  /\ ran = [q \in Queries |-> <<>>]
  /\ walk = [q \in Queries |-> NoWalk]
  /\ w = [q \in Queries |-> <<>>]

\* NewDefaultServerHandler, NewClientQueryLimiter, and no call in flight
ServerStart ==
  /\ \E cl \in Limits, ccl \in Limits, wl \in Workloads :
       /\ cfg = [ConcurrentLimit |-> cl, ConcurrentLimitPreClient |-> ccl,
                 Entry |-> wl.Entry]
       /\ calls = wl.calls
       /\ bucket = cl
  /\ from \in {f \in [Queries -> Addrs] :
                 /\ \A q \in Queries \ calls : f[q] = NoAddr
                 /\ \A p, q \in calls : p < q => AddrRank(f[p]) <= AddrRank(f[q])}
  /\ NoCalls

\* the server handler on its own; the hosts plugin is not looked at
Init ==
  /\ ServerStart
  /\ HostsStart

Next ==
  \/ \E q \in Queries : Admit(q)
  \/ \E q \in Queries : Cancel(q)
  \/ \E q \in Queries : Select(q)
  \/ \E q \in Queries : WaitCtxDone(q)
  \/ \E q \in Queries : ExecEntry(q)
  \/ \E q \in Queries : RunDeferred(q)
  \/ \E q \in Queries : Finish(q)

Spec == Init /\ [][Next]_vars

\* the hosts plugin on its own: the server has no call
HostsInit ==
  /\ HostsStart
  /\ cfg = [ConcurrentLimit |-> 0, ConcurrentLimitPreClient |-> 0, Entry |-> "static"]
  /\ calls = {}
  /\ bucket = 0
  /\ from = [q \in Queries |-> NoAddr]
  /\ NoCalls

\* the lines that may be loaded next, and the contexts the plugin may be
\* called with next: none where Load, ExecES and Connect are not enabled
LoadableLines ==
  IF container = "loading" THEN TokenLines(MaxIPs - Stored(matcher)) ELSE {}
CallContexts ==
  IF container = "ready" /\ ret = NoReturn THEN QueryContexts ELSE {}

HostsNext ==
  \/ \E p \in Patterns, s \in LoadableLines : Load(p, s)
  \/ Ready
  \/ \E ctx \in CallContexts : ExecES(ctx)
  \/ \E ctx \in CallContexts, e \in {NilError, ErrNext} : Connect(ctx, e)

HostsSpec == HostsInit /\ [][HostsNext]_vars

\* newHostsContainer with no hosts file configured (lines 62-64): there is no
\* hosts plugin
HostsOff ==
  /\ container = "failed"
  /\ matcher = EmptyMatcher
  /\ loadErr = <<"no hosts file is configured">>
  /\ qCtx = NoContext
  /\ ret = NoReturn
  /\ arg = NoContext
  /\ merges = 0

\* the server handler and the hosts plugin side by side: a server whose entry
\* has no hosts plugin, or the hosts plugin called on its own
SystemInit ==
  \/ ServerStart /\ HostsOff
  \/ HostsInit

SystemNext ==
  \/ \E q \in Queries : Admit(q)
  \/ \E q \in Queries : Cancel(q)
  \/ \E q \in Queries : Select(q)
  \/ \E q \in Queries : WaitCtxDone(q)
  \/ \E q \in Queries : ExecEntry(q)
  \/ \E q \in Queries : RunDeferred(q)
  \/ \E q \in Queries : Finish(q)
  \/ \E p \in Patterns, s \in LoadableLines : Load(p, s)
  \/ Ready
  \/ \E ctx \in CallContexts : ExecES(ctx)
  \/ \E ctx \in CallContexts, e \in {NilError, ErrNext} : Connect(ctx, e)

SystemSpec == SystemInit /\ [][SystemNext]_vars

\* every call that is past the gate goes on: the entry's walk ends (it runs
\* under the query's deadline) and a returning call runs its deferred calls
FairSpec ==
  /\ Spec
  /\ \A q \in Queries : WF_vars(ExecEntry(q)) /\ WF_vars(RunDeferred(q))

\* ================================================================ claims
Range(seq) == {seq[i] : i \in DOMAIN seq}

\* the calls from client key k that are past Acquire and have not run Done
PastAcquire(k) ==
  {q \in Queries : from[q] = k /\ "clientLimiter.Done" \in Range(godefer[q])}

\* the calls that hold a token of the global limiter
TokenHolders == {q \in Queries : "limiter.Done" \in Range(godefer[q])}

Refused(q) == SetReply(Q(q), RcodeRefused, "ServeDNS")
ServFail(q) == SetReply(Q(q), RcodeServerFailure, "ServeDNS")

\* q enters ServeDNS in this step
Enters(q) == pc[q] = "idle" /\ pc'[q] # "idle"
\* the walker runs for q in this step
Walks(q) == walked'[q] = walked[q] + 1

\* C1: under per-client limit M the calls of one client key that are past
\* Acquire and before Done never number more than M; a call entering ServeDNS
\* with a client address is refused, the counter untouched, when its key's
\* count (0 if absent) is >= M, and otherwise goes on with the count raised by
\* exactly 1 and every other key's count as it was.
C1_PerClientLimit ==
  /\ [](ClientLimited =>
          \A k \in Clients : Cardinality(PastAcquire(k)) <= cfg.ConcurrentLimitPreClient)
  /\ [][\A q \in Queries :
          (Enters(q) /\ ClientLimited /\ from[q] # NoAddr) =>
            IF Count(m, from[q]) >= cfg.ConcurrentLimitPreClient
              THEN m' = m /\ pc'[q] = "done" /\ w'[q] = <<Refused(q)>>
              ELSE /\ Count(m', from[q]) = Count(m, from[q]) + 1
                   /\ \A k \in Clients \ {from[q]} : Count(m', k) = Count(m, k)
                   /\ pc'[q] # "done"
                   /\ q \in PastAcquire(from[q])']_vars

\* C1 witness: limit 2 is full for a client (two of its calls in flight) and a
\* third call of that client has been refused
C1_Witness ==
  \E q \in Queries :
    /\ cfg.ConcurrentLimitPreClient = 2
    /\ pc[q] = "done"
    /\ w[q] = <<Refused(q)>>
    /\ Cardinality(PastAcquire(from[q])) = 2

\* C2: under global limit N at most N calls hold a token at once, and the
\* walker runs only for a call that holds one.
C2_GlobalLimit ==
  /\ [](GlobalLimited => Cardinality(TokenHolders) <= cfg.ConcurrentLimit)
  /\ [][\A q \in Queries : (Walks(q) /\ GlobalLimited) => q \in TokenHolders]_vars

\* C2 witness: limit 2, two calls hold the tokens, one of them has walked the
\* entry, and a third call waits
C2_Witness ==
  /\ cfg.ConcurrentLimit = 2
  /\ Cardinality(TokenHolders) = 2
  /\ \E q \in TokenHolders : walked[q] = 1
  /\ waitq # <<>>

\* C3: a call's response writer is written at most once, and what it is given
\* is the context's response, a SERVFAIL to the question or a REFUSED to it.
C3_OneReply ==
  \A q \in Queries :
    \/ w[q] = <<>>
    \/ /\ Len(w[q]) = 1
       /\ w[q][1] # NilMsg
       /\ w[q][1] \in {R[q], ServFail(q), Refused(q)}

\* C3 witness: three calls have returned, one refused, one dropped at the
\* gate without a reply, one answered with its response
C3_Witness ==
  \E a, b, c \in Queries :
    /\ pc[a] = "done" /\ pc[b] = "done" /\ pc[c] = "done"
    /\ w[a] = <<Refused(a)>>
    /\ w[b] = <<>> /\ ctxDone[b] /\ walked[b] = 0
    /\ w[c] = <<R[c]>> /\ walked[c] = 1

\* the deferred actions of a stack in the order LIFO runs them
Lifo(stack) == [i \in 1..Len(stack) |-> Len(stack) + 1 - i]

\* the call was dropped at the global gate: its select took the ctx case
Dropped(q) == ctxDone[q] /\ pc[q] \in {"return", "done"}

\* a deferred action of q was run and failed
DeferFailed(q) == \E i \in Range(ran[q]) : walk[q].pushed[i]

C5_Original ==
  \A q \in Queries :
    (walked[q] = 1 /\ walk[q].err = NilErr /\ DeferFailed(q)) =>
      /\ status[q] = walk[q].status
      /\ status[q] = StatusResponded => w[q] = <<R[q]>>

\* C5 amended: a failing deferred action leaves the status and the response
\* on the context as the walker left them, but its error is the error of
\* execEntry: the call is answered with a SERVFAIL built by ServeDNS, not
\* with its carried response.
C5_DeferError ==
  \A q \in Queries :
    (walked[q] = 1 /\ walk[q].err = NilErr /\ DeferFailed(q)) =>
      /\ status[q] = walk[q].status
      /\ R[q] = walk[q].R
      /\ err[q] = ErrDefer
      /\ w[q] = <<ServFail(q)>>

\* C5 witness: the walker answered (status responded, no error), a deferred
\* action failed, and the SERVFAIL has been written
C5_Witness ==
  \E q \in Queries :
    /\ walked[q] = 1
    /\ walk[q].err = NilErr
    /\ status[q] = StatusResponded
    /\ DeferFailed(q)
    /\ w[q] = <<ServFail(q)>>

\* what ServeDNS writes for q when SERVFAIL is due exactly in the cases of `fail`
Written(q, fail) ==
  IF fail THEN <<ServFail(q)>> ELSE IF R[q] # NilMsg THEN <<R[q]>> ELSE <<>>

\* C9 as stated: SERVFAIL is written exactly when the walker returned an
\* error or the status is server_failed; otherwise the carried response, if any.
C9_Original ==
  \A q \in Queries :
    walked[q] = 1 =>
      w[q] = Written(q, walk[q].err # NilErr \/ status[q] = StatusServerFailed)

\* C9 amended: SERVFAIL is written exactly when the walker returned an error,
\* a deferred action run after it failed, or the status is server_failed, and
\* then never the carried response; otherwise the carried response is written
\* if it is non-nil and nothing if it is nil.
C9_Reply ==
  \A q \in Queries :
    walked[q] = 1 =>
      w[q] = Written(q, \/ walk[q].err # NilErr
                        \/ DeferFailed(q)
                        \/ status[q] = StatusServerFailed)

\* C9 witness: the status is server_failed with no error and a response on the
\* context, and the SERVFAIL was written instead of it
C9_Witness ==
  \E q \in Queries :
    /\ walked[q] = 1
    /\ err[q] = NilErr
    /\ status[q] = StatusServerFailed
    /\ R[q] # NilMsg
    /\ w[q] = <<ServFail(q)>>

\* C6: a call with a client address whose Acquire fails writes one REFUSED to
\* its question and returns: the counter, the limiter's pool and its queue are
\* as before, no Done is deferred, and neither the walker nor a deferred
\* action has run for it.
C6_Refused ==
  /\ [][\A q \in Queries :
          (/\ Enters(q)
           /\ ClientLimited
           /\ from[q] # NoAddr
           /\ Count(m, from[q]) >= cfg.ConcurrentLimitPreClient) =>
            /\ w'[q] = <<Refused(q)>>
            /\ pc'[q] = "done"
            /\ godefer'[q] = <<>>
            /\ m' = m /\ bucket' = bucket /\ waitq' = waitq]_vars
  /\ [](\A q \in Queries :
          (w[q] # <<>> /\ w[q][1] = Refused(q)) =>
            /\ pc[q] = "done"
            /\ w[q] = <<Refused(q)>>
            /\ godefer[q] = <<>>
            /\ walked[q] = 0 /\ ran[q] = <<>>
            /\ q \notin TokenHolders /\ q \notin Range(waitq))

\* C6 witness: limit 1, one call of a client is in flight and a second call
\* of that client has been refused
C6_Witness ==
  \E p, q \in Queries :
    /\ cfg.ConcurrentLimitPreClient = 1
    /\ p # q /\ from[p] = from[q]
    /\ p \in PastAcquire(from[p])
    /\ pc[q] = "done" /\ w[q] = <<Refused(q)>>
    /\ Count(m, from[q]) = 1

C8_Fifo ==
  /\ [][\A q \in Queries :
          (q \notin TokenHolders /\ q \in TokenHolders') =>
            IF pc[q] = "waiting" THEN q = Head(waitq) ELSE waitq = <<>>]_vars
  /\ [][\A p, q \in Queries :
          (p \in Range(waitq) /\ q \in Range(waitq') /\ q \notin Range(waitq)) =>
            \E i, j \in DOMAIN waitq' : waitq'[i] = p /\ waitq'[j] = q /\ i < j]_vars
  /\ \A q \in Queries :
       (pc[q] = "waiting") ~> (q \in TokenHolders \/ ctxDone[q])

\* C8 witness: limit 1, a call has given its token back, another holds it now
\* and has not walked yet, and a third is still blocked behind it
C8_Witness ==
  \E p, q, r \in Queries :
    /\ cfg.ConcurrentLimit = 1
    /\ walked[q] = 1 /\ q \notin TokenHolders
    /\ TokenHolders = {p} /\ pc[p] = "exec"
    /\ waitq = <<r>>

\* C10: after the hosts stage was called with one question of type A (AAAA)
\* whose name matches an entry with at least one IPv4 (IPv6) address, the
\* status is responded and the answer section holds one RR per address the
\* record stores for that family, in the stored order, each with the
\* question's name, the queried type, class IN, TTL 3600 and an address of
\* that family's length, and nothing else.
C10_HostsAnswer ==
  (ret.op # "none" /\ Len(qCtx.q.Question) = 1) =>
    LET name == qCtx.q.Question[1].Name
        typ == qCtx.q.Question[1].Qtype
    IN  (typ \in {"A", "AAAA"} /\ name \in DOMAIN matcher) =>
          LET ips == IF typ = "A" THEN matcher[name].ipv4 ELSE matcher[name].ipv6
          IN  Len(ips) > 0 =>
                /\ qCtx.status = StatusResponded
                /\ Len(qCtx.r.Answer) = Len(ips)
                /\ \A i \in 1..Len(ips) :
                     /\ qCtx.r.Answer[i] =
                          [Name |-> name, Rrtype |-> typ, Class |-> "IN", Ttl |-> 3600,
                           Addr |-> ips[i]]
                     /\ qCtx.r.Answer[i].Addr.len = IF typ = "A" THEN 4 ELSE 16

\* C10 witness: example.com. holds 1.2.3.4, 5.6.7.8 and ::1, and an A query
\* for it has been answered with the two IPv4 addresses in that order
C10_Witness ==
  /\ ret.op = "ExecES"
  /\ qCtx.q.Question = <<[Name |-> "example.com.", Qtype |-> "A", Qclass |-> "IN"]>>
  /\ "example.com." \in DOMAIN matcher
  /\ Len(matcher["example.com."].ipv6) = 1
  /\ qCtx.status = StatusResponded
  /\ Len(qCtx.r.Answer) = 2
  /\ qCtx.r.Answer[1].Addr = [len |-> 4, addr |-> "1.2.3.4"]
  /\ qCtx.r.Answer[2].Addr = [len |-> 4, addr |-> "5.6.7.8"]

\* C11: in every state of the server handler and of the hosts stage, a
\* context whose status is responded carries a response, and that response has
\* the id of the question; every reply ServeDNS builds itself (REFUSED,
\* SERVFAIL) has the id of the question of its call.
C11_ResponseId ==
  /\ qCtx.status = StatusResponded => qCtx.r # NoMsg /\ qCtx.r.Id = qCtx.q.Id
  /\ \A q \in Queries :
       /\ status[q] = StatusResponded => R[q] # NilMsg /\ R[q].Id = Q(q).Id
       /\ \A i \in DOMAIN w[q] :
            w[q][i].Origin = "ServeDNS" =>
              /\ w[q][i].Rcode \in {RcodeRefused, RcodeServerFailure}
              /\ w[q][i].Id = Q(q).Id

\* C11 witness: the hosts stage has answered the query with id 2
C11_Witness ==
  /\ ret.op # "none"
  /\ qCtx.q.Id = 2
  /\ qCtx.status = StatusResponded
  /\ qCtx.r.Id = 2
  /\ qCtx.r.Response

\* C12: every key present in the per-client counter maps to a value in
\* 1..maxQueries, never to 0; a step that lowers a key's count lowers it by
\* exactly 1 and removes the key when the count reaches 0, and a step that
\* raises it raises it by exactly 1.
C12_NoZeroEntry ==
  /\ [](\A k \in DOMAIN m : m[k] \in 1..cfg.ConcurrentLimitPreClient)
  /\ [][\A k \in Clients :
          /\ Count(m', k) < Count(m, k) =>
               /\ Count(m', k) = Count(m, k) - 1
               /\ Count(m', k) = 0 => k \notin DOMAIN m'
          /\ Count(m', k) > Count(m, k) => Count(m', k) = Count(m, k) + 1]_vars

\* C12 witness: with limit 2, a call of a client has run its Done while
\* another call of that client is in flight (count 1), and a third client's
\* call has run its Done and left no entry behind
C12_Witness ==
  \E p, q, r \in Queries :
    /\ cfg.ConcurrentLimitPreClient = 2
    /\ from[p] = from[q] /\ p # q /\ from[r] # from[p] /\ from[r] # NoAddr
    /\ pc[p] = "done" /\ walked[p] = 1
    /\ q \in PastAcquire(from[q])
    /\ m[from[q]] = 1
    /\ pc[r] = "done" /\ walked[r] = 1
    /\ from[r] \notin DOMAIN m

\* the plugin was called with one question of type A or AAAA whose name has an
\* entry that holds an address of that family
Hit ==
  /\ Len(arg.q.Question) = 1
  /\ arg.q.Question[1].Name \in DOMAIN matcher
  /\ \/ /\ arg.q.Question[1].Qtype = "A"
        /\ matcher[arg.q.Question[1].Name].ipv4 # <<>>
     \/ /\ arg.q.Question[1].Qtype = "AAAA"
        /\ matcher[arg.q.Question[1].Name].ipv6 # <<>>

\* C13: ExecES never returns an error; it returns early_stop = true exactly
\* when it set status responded (with a response), which is on a hit; in every
\* other case (question count other than 1, name not matched, no address of
\* the queried family, type other than A/AAAA) it returns early_stop = false
\* and the context is as it was handed in.
C13_ExecESFrame ==
  ret.op = "ExecES" =>
    /\ ret.err = NilError
    /\ ret.next = 0
    /\ ret.earlyStop <=> Hit
    /\ ret.earlyStop <=> (qCtx # arg /\ qCtx.status = StatusResponded)
    /\ ret.earlyStop => qCtx.r # NoMsg /\ qCtx.q = arg.q
    /\ ~ret.earlyStop => qCtx = arg

\* C13 witness: example.com. holds IPv4 addresses only, an AAAA query for it,
\* handed in with status rejected, fell through and is still rejected
C13_Witness ==
  /\ ret.op = "ExecES"
  /\ arg.q.Question = <<[Name |-> "example.com.", Qtype |-> "AAAA", Qclass |-> "IN"]>>
  /\ "example.com." \in DOMAIN matcher
  /\ matcher["example.com."].ipv4 # <<>>
  /\ matcher["example.com."].ipv6 = <<>>
  /\ arg.status = StatusRejected
  /\ ~ret.earlyStop
  /\ qCtx.status = StatusRejected /\ qCtx.r = NoMsg

\* C14: Connect, on a hit (it matched and set the response), does not call
\* ExecNextPlugin and returns no error; on anything else it calls
\* ExecNextPlugin exactly once and returns the error that call returned. It
\* never does both or neither.
C14_ConnectNext ==
  ret.op = "Connect" =>
    /\ ret.next \in {0, 1}
    /\ ret.next = 0 <=> Hit
    /\ ret.next = 0 <=> (qCtx # arg /\ qCtx.status = StatusResponded /\ qCtx.r # NoMsg)
    /\ ret.next = 0 => ret.err = NilError
    /\ ret.next = 1 => ret.err = ret.nextErr

\* C14 witness: Connect was called for a name with no entry, the next plugin
\* was called once and failed, and Connect returned that error
C14_Witness ==
  /\ ret.op = "Connect"
  /\ Len(arg.q.Question) = 1
  /\ arg.q.Question[1].Name \notin DOMAIN matcher
  /\ DOMAIN matcher # {}
  /\ ret.next = 1
  /\ ret.nextErr = ErrNext
  /\ ret.err = ErrNext

\* C15: a call whose client address is nil is not subject to the per-client
\* limiter: entering ServeDNS it writes nothing, defers no Done, leaves the
\* counter as it is and stands at the global gate (or at execEntry when there
\* is no global limit); it is never refused, the counter changes only in steps
\* of calls that have an address and holds no entry for nil, and with a
\* global limit the call walks only while it holds a token.
C15_NilAddrBypass ==
  /\ [][\A q \in Queries :
          (Enters(q) /\ from[q] = NoAddr) =>
            /\ m' = m
            /\ w'[q] = <<>>
            /\ godefer'[q] = <<>>
            /\ pc'[q] = IF GlobalLimited THEN "gate" ELSE "exec"]_vars
  /\ [][m' # m =>
          \E q \in Queries :
            /\ from[q] # NoAddr
            /\ pc'[q] # pc[q]
            /\ \A p \in Queries \ {q} : pc'[p] = pc[p]]_vars
  /\ [][\A q \in Queries :
          (from[q] = NoAddr /\ Walks(q) /\ GlobalLimited) =>
            Head(godefer[q]) = "limiter.Done"]_vars
  /\ [](\A q \in Queries :
          from[q] = NoAddr =>
            /\ Refused(q) \notin Range(w[q])
            /\ "clientLimiter.Done" \notin Range(godefer[q]))
  /\ [](NoAddr \notin DOMAIN m)

\* C15 witness: per-client limit 1 and global limit 2, two calls without an
\* address are in flight at once, both hold a token, one has been answered,
\* and the counter is empty
C15_Witness ==
  \E p, q \in Queries :
    /\ p # q
    /\ cfg.ConcurrentLimitPreClient = 1
    /\ cfg.ConcurrentLimit = 2
    /\ from[p] = NoAddr /\ from[q] = NoAddr
    /\ TokenHolders = {p, q}
    /\ walked[p] = 1 /\ w[p] # <<>>
    /\ pc[q] = "exec"
    /\ m = EmptyMap

\* C16: a hosts line whose pattern has a record already is merged into it:
\* the record's ipv4 list becomes the old ipv4 list followed by the line's
\* ipv4 list, and its ipv6 list the old one followed by the line's, nothing
\* dropped, reordered or deduplicated, and no other record changes; a query
\* that hits the record is answered with one RR per element of the list, so
\* an address that is there twice is answered twice.
C16_MergeAppends ==
  /\ [][\A p \in Patterns, s \in TokenLines(MaxIPs) :
          (Load(p, s) /\ p \in DOMAIN matcher /\ parseIP(s).accept) =>
            /\ matcher'[p].ipv4 = matcher[p].ipv4 \o parseIP(s).v[1].ipv4
            /\ matcher'[p].ipv6 = matcher[p].ipv6 \o parseIP(s).v[1].ipv6
            /\ DOMAIN matcher' = DOMAIN matcher
            /\ \A o \in DOMAIN matcher \ {p} : matcher'[o] = matcher[o]]_vars
  /\ [](ret.op # "none" /\ Hit =>
          LET rec == matcher[arg.q.Question[1].Name]
              ips == IF arg.q.Question[1].Qtype = "A" THEN rec.ipv4 ELSE rec.ipv6
          IN  [i \in DOMAIN qCtx.r.Answer |-> qCtx.r.Answer[i].Addr] = ips)

\* C16 witness: 1.2.3.4 was loaded for example.com. on one line and again on a
\* later one, the record holds it twice, and an A query got it twice
C16_Witness ==
  /\ merges >= 1
  /\ "example.com." \in DOMAIN matcher
  /\ matcher["example.com."].ipv4 =
       <<[len |-> 4, addr |-> "1.2.3.4"], [len |-> 4, addr |-> "1.2.3.4"]>>
  /\ ret.op = "ExecES"
  /\ arg.q.Question = <<[Name |-> "example.com.", Qtype |-> "A", Qclass |-> "IN"]>>
  /\ Len(qCtx.r.Answer) = 2
  /\ qCtx.r.Answer[1].Addr = qCtx.r.Answer[2].Addr

\* how a token is written: 4 for a dotted quad, 6 for a colon text, 0 for
\* anything that is no IP address
TextFamily(t) ==
  IF t \in {"1.2.3.4", "5.6.7.8"} THEN 4
  ELSE IF t \in {"::1", "::ffff:1.2.3.4"} THEN 6
  ELSE 0

\* the IPv4 address a token denotes, "" if it denotes none: a dotted quad
\* denotes itself, an IPv4-mapped IPv6 text the IPv4 address it embeds
DenotedIPv4(t) ==
  IF TextFamily(t) = 4 THEN t ELSE IF t = "::ffff:1.2.3.4" THEN "1.2.3.4" ELSE ""

AllValid(s) == \A i \in DOMAIN s : TextFamily(s[i]) # 0
FirstInvalid(s) ==
  s[CHOOSE i \in DOMAIN s : TextFamily(s[i]) = 0 /\ \A j \in 1..(i - 1) : TextFamily(s[j]) # 0]

\* the lists the statement of C17 promises for the tokens s: the dotted quads,
\* and every other token as a 16-byte address
Written4(s) ==
  LET f == SelectSeq(s, LAMBDA t : TextFamily(t) = 4)
  IN  [i \in 1..Len(f) |-> [len |-> 4, addr |-> f[i]]]
Written6(s) ==
  LET f == SelectSeq(s, LAMBDA t : TextFamily(t) # 4)
  IN  [i \in 1..Len(f) |-> [len |-> 16, addr |-> f[i]]]

\* the lists by what the tokens denote: the 4-byte IPv4 addresses of the
\* tokens that denote one, and the other tokens as 16-byte addresses
Denoted4(s) ==
  LET f == SelectSeq(s, LAMBDA t : DenotedIPv4(t) # "")
  IN  [i \in 1..Len(f) |-> [len |-> 4, addr |-> DenotedIPv4(f[i])]]
Denoted6(s) ==
  LET f == SelectSeq(s, LAMBDA t : DenotedIPv4(t) = "")
  IN  [i \in 1..Len(f) |-> [len |-> 16, addr |-> f[i]]]

\* what loading a line does whose tokens are parsed, apart from the lists: no
\* token, nothing happens; an invalid token, the load fails with an error that
\* names the first one and there is no record; else the load goes on
ParseOutcome(p, s) ==
  /\ s = <<>> => UNCHANGED <<matcher, container, loadErr>>
  /\ (s # <<>> /\ ~AllValid(s)) =>
       /\ container' = "failed"
       /\ loadErr' = <<"invalid ip addr", FirstInvalid(s)>>
       /\ matcher' = EmptyMatcher
  /\ (s # <<>> /\ AllValid(s)) =>
       /\ container' = "loading"
       /\ loadErr' = NilError
       /\ p \in DOMAIN matcher'

\* the record of pattern p before the load, empty if there is none
RecordOf(p) == IF p \in DOMAIN matcher THEN matcher[p] ELSE ipRecord

\* C17 as stated: the record of an accepted line holds every IPv4 token in
\* ipv4 and every other token in ipv6, each in token order.
C17_Original ==
  [][\A p \in Patterns, s \in TokenLines(MaxIPs) :
       Load(p, s) =>
         /\ ParseOutcome(p, s)
         /\ (s # <<>> /\ AllValid(s)) =>
              /\ matcher'[p].ipv4 = RecordOf(p).ipv4 \o Written4(s)
              /\ matcher'[p].ipv6 = RecordOf(p).ipv6 \o Written6(s)]_vars

\* C17 amended: parsing the tokens of a hosts line fails with an error naming
\* the first invalid token and yields no record when a token is no valid IP;
\* with no token it yields no record and no error; otherwise it accepts and
\* yields a record that holds in ipv4, as 4-byte addresses, the tokens that
\* denote an IPv4 address, a dotted quad or an IPv4-mapped IPv6 text such as
\* ::ffff:1.2.3.4, and in ipv6 every other token, each in token order.
C17_ParseIP ==
  [][\A p \in Patterns, s \in TokenLines(MaxIPs) :
       Load(p, s) =>
         /\ ParseOutcome(p, s)
         /\ (s # <<>> /\ AllValid(s)) =>
              /\ matcher'[p].ipv4 = RecordOf(p).ipv4 \o Denoted4(s)
              /\ matcher'[p].ipv6 = RecordOf(p).ipv6 \o Denoted6(s)]_vars

\* C17 witness: one line with an IPv4-mapped text, a dotted quad and an IPv6
\* text has been loaded for host.lan.: its record holds 1.2.3.4 and 5.6.7.8
\* in ipv4 and ::1 in ipv6
C17_Witness ==
  /\ merges = 0
  /\ DOMAIN matcher = {"host.lan."}
  /\ matcher["host.lan."].ipv4 = <<[len |-> 4, addr |-> "1.2.3.4"], [len |-> 4, addr |-> "5.6.7.8"]>>
  /\ matcher["host.lan."].ipv6 = <<[len |-> 16, addr |-> "::1"]>>
  /\ container = "ready"

\* no ServeDNS call is running
AllReturned == \A q \in Queries : pc[q] \in {"idle", "done"}

\* C18: what is taken is owed exactly once and given back on every way out:
\* the count of a client is the number of its calls that have a Done to run,
\* the tokens out of the pool are those of the calls that have a limiter.Done
\* to run, no call owes the same release twice, a call that has returned owes
\* nothing (also one dropped at the global gate after its Acquire), and once
\* every call has returned the counter is empty, nobody waits and all N tokens
\* are in the pool.
C18_ReleaseAll ==
  /\ \A k \in Clients : Count(m, k) = Cardinality(PastAcquire(k))
  /\ GlobalLimited => bucket + Cardinality(TokenHolders) = cfg.ConcurrentLimit
  /\ \A q \in Queries :
       /\ godefer[q] \in {<<>>, <<"clientLimiter.Done">>, <<"limiter.Done">>,
                          <<"limiter.Done", "clientLimiter.Done">>}
       /\ pc[q] \in {"idle", "done"} => godefer[q] = <<>>
       /\ pc[q] = "return" => godefer[q] # <<>>
  /\ AllReturned =>
       /\ m = EmptyMap
       /\ waitq = <<>>
       /\ GlobalLimited => bucket = cfg.ConcurrentLimit

\* C18 witness: both limits are on, one call was answered and another, of a
\* client with an address, was dropped at the global gate; all have returned,
\* the counter is empty and the pool is full
C18_Witness ==
  \E p, q \in Queries :
    /\ ClientLimited /\ GlobalLimited
    /\ from[p] # NoAddr /\ from[q] # NoAddr
    /\ pc[p] = "done" /\ walked[p] = 1 /\ w[p] # <<>>
    /\ pc[q] = "done" /\ Dropped(q) /\ walked[q] = 0
    /\ AllReturned
    /\ m = EmptyMap
    /\ bucket = cfg.ConcurrentLimit

\* the call has a slot of its client / a token of the pool to give back
HasSlot(q) == "clientLimiter.Done" \in Range(godefer[q])
HasToken(q) == "limiter.Done" \in Range(godefer[q])
\* the call is subject to the per-client limiter
Limited(q) == ClientLimited /\ from[q] # NoAddr

\* C19: a call takes its per-client slot first, the global token second, and
\* gives them back last: at the global gate, in the queue and in execEntry a
\* call that is subject to the per-client limiter has its slot (so a call
\* queued at the gate counts against its client), in execEntry it also has
\* its token; nothing is given back before the call is returning, which for
\* an admitted call is after its reply was written, and the token is given
\* back before the slot.
C19_AdmissionOrder ==
  /\ [](\A q \in Queries :
          /\ (pc[q] \in {"gate", "waiting", "exec"} /\ Limited(q)) =>
               HasSlot(q) /\ Count(m, from[q]) >= 1
          /\ (pc[q] = "exec" /\ GlobalLimited) => HasToken(q)
          /\ pc[q] \in {"gate", "waiting"} => ~HasToken(q) /\ walked[q] = 0 /\ w[q] = <<>>)
  /\ [][\A q \in Queries :
          /\ (HasToken(q) /\ ~HasToken(q)') =>
               /\ pc[q] = "return" /\ walked[q] = 1
               /\ w'[q] = w[q]
               /\ Limited(q) => HasSlot(q)'
          /\ (HasSlot(q) /\ ~HasSlot(q)') =>
               /\ pc[q] = "return"
               /\ ~HasToken(q)
               /\ w'[q] = w[q]
          /\ (~HasToken(q) /\ HasToken(q)' /\ Limited(q)) => HasSlot(q)]_vars

\* C19 witness: both limits are on; a call has been answered and has given
\* its token back while it still has its slot; another call, with an address,
\* is queued at the gate and is counted, while a third holds a token
C19_Witness ==
  \E p, q, r \in Queries :
    /\ ClientLimited /\ GlobalLimited
    /\ Limited(p) /\ Limited(q)
    /\ pc[p] = "return" /\ walked[p] = 1 /\ w[p] # <<>>
    /\ HasSlot(p) /\ ~HasToken(p)
    /\ pc[q] = "waiting" /\ HasSlot(q) /\ Count(m, from[q]) >= 1
    /\ pc[r] = "exec" /\ HasToken(r)

\* C20: the handler never panics in Done: a call runs Done for its client
\* only when it has taken that client's slot and not given it back, so Done
\* finds the key present with a count of at least 1 and lowers it by 1.
C20_NoUnderflow ==
  /\ [](~panicked)
  /\ [][\A q \in Queries :
          (pc[q] = "return" /\ Head(godefer[q]) = "clientLimiter.Done" /\ pc'[q] # pc[q]) =>
            /\ from[q] \in DOMAIN m
            /\ m[from[q]] >= 1
            /\ Count(m', from[q]) = m[from[q]] - 1
            /\ ~panicked']_vars
  /\ [][\A q \in Queries :
          (~HasSlot(q) /\ HasSlot(q)') =>
            /\ pc[q] = "idle"
            /\ from[q] # NoAddr
            /\ Count(m', from[q]) = Count(m, from[q]) + 1]_vars

\* C20 witness: limit 2, two calls of one client were in flight together and
\* both have run their Done; the key is gone and nothing panicked
C20_Witness ==
  \E p, q \in Queries :
    /\ p # q /\ from[p] = from[q] /\ from[p] # NoAddr
    /\ cfg.ConcurrentLimitPreClient = 2
    /\ cfg.ConcurrentLimit = 2
    /\ pc[p] = "done" /\ walked[p] = 1
    /\ pc[q] = "done" /\ walked[q] = 1
    /\ from[p] \notin DOMAIN m
    /\ bucket = 2
    /\ ~panicked

====
